---- MODULE Spec2Model ----
(***************************************************************************)
(* Model of local/utils.go: the container inventory (SiteList and          *)
(* ProcessContainer) and the port watcher (GetPort and GetPodPort).        *)
(*                                                                         *)
(* Strings are sequences of one-character strings, so that strings.Split,  *)
(* strings.HasPrefix, strings.HasSuffix and strings.Contains are computed  *)
(* character by character as the Go library computes them.                 *)
(***************************************************************************)
EXTENDS Integers, Sequences, FiniteSets, TLC

VARIABLES
    legacy,      \* SiteList: map[string]LegacyApp of legacy- containers
    local,       \* SiteList: map[string]LegacyApp of -db / -web containers
    pos,         \* SiteList: number of containers the outer loop has handled
    container,   \* SiteList: the container of the latest loop iteration
    contrib,     \* history: per map and appid, the State of every container merged in
    output,      \* SiteList: what lines 251-261 rendered, <<>> until it returns
    name,        \* GetPodPort: the name fragment looked for
    attempt,     \* try.Do: the attempt number handed to the callback
    publicPort,  \* GetPodPort: var publicPort, assigned by the callback
    err,         \* the error of the latest callback run
    pc,          \* GetPodPort: "idle", "polling", "tried", "found" or "exhausted"
    queries,     \* history: number of ListContainers queries issued
    failures,    \* history: number of GetPort calls that returned an error
    listing,     \* history: what the latest ListContainers query returned
    result       \* GetPodPort: the (port, error) pair returned to the caller

vars == <<legacy, local, pos, container, contrib, output,
          name, attempt, publicPort, err, pc, queries, failures, listing, result>>

aggVars == <<legacy, local, pos, container, contrib, output>>
watchVars == <<name, attempt, publicPort, err, pc, queries, failures, listing, result>>

----------------------------------------------------------------------------
(* Bounds of the model *)

\* number of containers in the list handed to SiteList
MaxContainers == 2

\* number of containers in one ListContainers answer
MaxListing == 2

----------------------------------------------------------------------------
(* Strings *)

Dash == <<"-">>
Slash == <<"/">>
sLegacy == <<"l", "e", "g", "a", "c", "y">>
sWeb == <<"w", "e", "b">>
sDb == <<"d", "b">>
sA == <<"a">>
sB == <<"b">>
sP == <<"p">>
sX == <<"x">>
sY == <<"y">>
sZ == <<"z">>

RECURSIVE Join(_)
Join(segs) ==
    IF Len(segs) = 0 THEN <<>>
    ELSE IF Len(segs) = 1 THEN segs[1]
    ELSE segs[1] \o Dash \o Join(Tail(segs))

\* a container name as docker reports it: "/" followed by the dash-joined segments
Raw(segs) == Slash \o Join(segs)

\* s[1:]
DropFirst(s) == SubSeq(s, 2, Len(s))

HasPrefix(s, prefix) ==
    /\ Len(s) >= Len(prefix)
    /\ SubSeq(s, 1, Len(prefix)) = prefix

HasSuffix(s, suffix) ==
    /\ Len(s) >= Len(suffix)
    /\ SubSeq(s, Len(s) - Len(suffix) + 1, Len(s)) = suffix

Contains(s, substr) ==
    \E i \in 0..(Len(s) - Len(substr)) : SubSeq(s, i + 1, i + Len(substr)) = substr

RECURSIVE SplitFrom(_, _, _)
SplitFrom(s, field, done) ==
    IF s = <<>> THEN Append(done, field)
    ELSE IF Head(s) = "-" THEN SplitFrom(Tail(s), <<>>, Append(done, field))
    ELSE SplitFrom(Tail(s), Append(field, Head(s)), done)

\* strings.Split(s, "-")
Split(s) == SplitFrom(s, <<>>, <<>>)

----------------------------------------------------------------------------
(* docker.APIContainers values the model draws from *)

Port(public) == [PrivatePort |-> 80, PublicPort |-> public]

PortLists ==
    { <<>>,
      <<Port(0), Port(8080), Port(9090)>>,
      <<Port(3306), Port(0)>> }

NameLists ==
    { <<Raw(<<sLegacy, sA, sP, sWeb>>)>>,
      <<Raw(<<sLegacy, sA, sP, sDb>>)>>,
      <<Raw(<<sLegacy, sB, sP, sWeb>>)>>,
      <<Raw(<<sLegacy, sA, sP>>)>>,
      <<Raw(<<sLegacy, sA, sP, sX, sWeb>>)>>,
      <<Raw(<<sLegacy, sA, sP, sX>>)>>,
      <<Raw(<<sX, sY, sZ>>)>>,
      <<Raw(<<sA, sWeb>>)>>,
      <<Raw(<<sX, sA, sP, sWeb>>)>>,
      <<Raw(<<sX, sA, sP, sDb>>)>>,
      <<Raw(<<sX, sY, sZ>>), Raw(<<sLegacy, sA, sP, sWeb>>)>>,
      <<Raw(<<sLegacy, sA, sP>>), Raw(<<sLegacy, sA, sP, sWeb>>)>>,
      <<Raw(<<sLegacy, sA, sP, sDb>>), Raw(<<sLegacy, sB, sP, sDb>>)>> }

\* the port lists and states a container is drawn with
Shapes ==
    (PortLists \X {"running", "exited"}) \cup {<<<<Port(3306), Port(0)>>, "restarting">>}

Containers ==
    { [Names |-> n, Ports |-> sh[1], State |-> sh[2]] : n \in NameLists, sh \in Shapes }

NoContainer == [Names |-> <<>>, Ports |-> <<>>, State |-> ""]

----------------------------------------------------------------------------
(* map[string]LegacyApp *)

EmptyMap == [k \in {} |-> 0]

Put(l, k, v) == [x \in (DOMAIN l) \cup {k} |-> IF x = k THEN v ELSE l[x]]

----------------------------------------------------------------------------
(* ProcessContainer *)

\* mutation: the length test admits longer names
LenIsFour_AtLeast(parts) == Len(parts) >= 4

LenIsFour(parts) == Len(parts) = 4

\* mutation: the key is built from the app and the role segment
AppId_NameRole(parts) == parts[2] \o Dash \o parts[4]

AppId(parts) == parts[2] \o Dash \o parts[3]

NewApp(parts, ctr) ==
    [ Name |-> parts[2],
      Environment |-> parts[3],
      Status |-> ctr.State,
      WebPublicPort |-> 0,
      DbPublicPort |-> 0 ]

RECURSIVE ScanPorts(_, _)
ScanPorts(ports, found) ==
    IF ports = <<>> THEN found
    ELSE IF Head(ports).PublicPort # 0 THEN ScanPorts(Tail(ports), Head(ports).PublicPort)
    ELSE ScanPorts(Tail(ports), found)

\* mutation: the scan stops at the first published port
RECURSIVE PublicPortOf_First(_)
PublicPortOf_First(ports) ==
    IF ports = <<>> THEN 0
    ELSE IF Head(ports).PublicPort # 0 THEN Head(ports).PublicPort
    ELSE PublicPortOf_First(Tail(ports))

PublicPortOf(ports) == ScanPorts(ports, 0)

\* mutation: either role writes both ports
SetPorts_Both(app, role, port) ==
    IF role = sWeb \/ role = sDb
    THEN [app EXCEPT !.WebPublicPort = port, !.DbPublicPort = port]
    ELSE app

SetPorts(app, role, port) ==
    LET web == IF role = sWeb THEN [app EXCEPT !.WebPublicPort = port] ELSE app
    IN  IF role = sDb THEN [web EXCEPT !.DbPublicPort = port] ELSE web

\* mutation: the status is written whatever the state
SetStatus_Always(app, state) == [app EXCEPT !.Status = state]

SetStatus(app, state) ==
    IF state # "running" THEN [app EXCEPT !.Status = state] ELSE app

ProcessContainer(l, containerName, ctr) ==
    LET parts == Split(containerName) IN
    IF LenIsFour(parts)
    THEN LET appid == AppId(parts)
             l1 == IF appid \notin DOMAIN l THEN Put(l, appid, NewApp(parts, ctr)) ELSE l
             app == l1[appid]
             ported == SetPorts(app, parts[4], PublicPortOf(ctr.Ports))
         IN  Put(l1, appid, SetStatus(ported, ctr.State))
    ELSE l

----------------------------------------------------------------------------
(* SiteList *)

IsLegacyName(s) == HasPrefix(s, sLegacy \o Dash)

\* mutation: only the -web suffix is looked for
IsLocalName_WebOnly(s) == HasSuffix(s, Dash \o sWeb)

IsLocalName(s) == HasSuffix(s, Dash \o sDb) \/ HasSuffix(s, Dash \o sWeb)

\* mutation: the inner loop does not break after a processed name
RECURSIVE ScanNames_NoBreak(_, _, _, _)
ScanNames_NoBreak(leg, loc, ctr, i) ==
    IF i > Len(ctr.Names) THEN <<leg, loc>>
    ELSE LET containerName == DropFirst(ctr.Names[i]) IN
         IF IsLegacyName(containerName)
         THEN ScanNames_NoBreak(ProcessContainer(leg, containerName, ctr), loc, ctr, i + 1)
         ELSE IF IsLocalName(containerName)
         THEN ScanNames_NoBreak(leg, ProcessContainer(loc, containerName, ctr), ctr, i + 1)
         ELSE ScanNames_NoBreak(leg, loc, ctr, i + 1)

\* the inner loop over container.Names, from index i on: the pair of maps it leaves
RECURSIVE ScanNames(_, _, _, _)
ScanNames(leg, loc, ctr, i) ==
    IF i > Len(ctr.Names) THEN <<leg, loc>>
    ELSE LET containerName == DropFirst(ctr.Names[i]) IN
         IF IsLegacyName(containerName)
         THEN <<ProcessContainer(leg, containerName, ctr), loc>>
         ELSE IF IsLocalName(containerName)
         THEN <<leg, ProcessContainer(loc, containerName, ctr)>>
         ELSE ScanNames(leg, loc, ctr, i + 1)

\* history only: where the container was merged, as the code computed it
RECURSIVE Merged(_, _)
Merged(ctr, i) ==
    IF i > Len(ctr.Names) THEN <<"none", <<>>>>
    ELSE LET containerName == DropFirst(ctr.Names[i])
             parts == Split(containerName)
             target == IF IsLegacyName(containerName) THEN "legacy"
                       ELSE IF IsLocalName(containerName) THEN "local" ELSE "none"
         IN  IF target = "none" THEN Merged(ctr, i + 1)
             ELSE IF Len(parts) = 4 THEN <<target, parts[2] \o Dash \o parts[3]>>
             ELSE <<"none", <<>>>>

Record(c, ctr) ==
    LET m == Merged(ctr, 1) IN
    IF m[1] = "none" THEN c
    ELSE Put(c, m, IF m \in DOMAIN c THEN c[m] \cup {ctr.State} ELSE {ctr.State})

SiteListStep(ctr) ==
    /\ output = <<>>
    /\ pos < MaxContainers
    /\ LET maps == ScanNames(legacy, local, ctr, 1) IN
         /\ legacy' = maps[1]
         /\ local' = maps[2]
    /\ pos' = pos + 1
    /\ container' = ctr
    /\ contrib' = Record(contrib, ctr)
    /\ UNCHANGED <<output>>
    /\ UNCHANGED watchVars

Render(leg, loc) ==
    (IF Cardinality(DOMAIN leg) > 0 THEN <<"legacy">> ELSE <<>>)
    \o (IF Cardinality(DOMAIN loc) > 0 THEN <<"local">> ELSE <<>>)
    \o (IF Cardinality(DOMAIN loc) = 0 /\ Cardinality(DOMAIN leg) = 0
        THEN <<"No applications found.">> ELSE <<>>)

SiteListReturn ==
    /\ output = <<>>
    /\ output' = Render(legacy, local)
    /\ UNCHANGED <<legacy, local, pos, container, contrib>>
    /\ UNCHANGED watchVars

InitAgg ==
    /\ legacy = EmptyMap
    /\ local = EmptyMap
    /\ pos = 0
    /\ container = NoContainer
    /\ contrib = EmptyMap
    /\ output = <<>>
    /\ name = <<>>
    /\ attempt = 0
    /\ publicPort = 0
    /\ err = "nil"
    /\ pc = "idle"
    /\ queries = 0
    /\ failures = 0
    /\ listing = [containers |-> <<>>, err |-> "nil"]
    /\ result = <<0, "nil">>

NextAgg ==
    \/ \E ctr \in Containers : SiteListStep(ctr)
    \/ SiteListReturn

SpecAgg == InitAgg /\ [][NextAgg]_vars

----------------------------------------------------------------------------
(* GetPort *)

Nil == "nil"
NotReady == "container not ready"
ListErrors == {"cannot connect to the docker daemon", "request timed out"}

WatchNames == { <<Raw(<<sA, sWeb>>)>>, <<Raw(<<sA, sDb>>)>> }

WatchPortLists == { <<Port(0)>>, <<Port(0), Port(8080), Port(9090)>> }

WatchContainers ==
    { [Names |-> n, Ports |-> p, State |-> "running"] : n \in WatchNames, p \in WatchPortLists }

RECURSIVE SeqsUpTo(_, _)
SeqsUpTo(S, n) ==
    IF n = 0 THEN {<<>>}
    ELSE LET shorter == SeqsUpTo(S, n - 1) IN
         shorter \cup { Append(q, x) : q \in shorter, x \in S }

\* what client.ListContainers can return: a list and no error, or an error
Answers ==
    { [containers |-> cs, err |-> Nil] : cs \in SeqsUpTo(WatchContainers, MaxListing) }
    \cup { [containers |-> <<>>, err |-> e] : e \in ListErrors }

NoAnswer == [containers |-> <<>>, err |-> Nil]

Fragments == { sWeb, sA }

\* the inner loop of GetPort: the first published port of one container, 0 if none
RECURSIVE FirstPublished(_)
FirstPublished(ports) ==
    IF ports = <<>> THEN 0
    ELSE IF Head(ports).PublicPort # 0 THEN Head(ports).PublicPort
    ELSE FirstPublished(Tail(ports))

\* the outer loop of GetPort and the return after it
RECURSIVE ScanContainers(_, _)
ScanContainers(containers, frag) ==
    IF containers = <<>> THEN <<0, NotReady>>
    ELSE LET ctr == Head(containers) IN
         IF Contains(DropFirst(ctr.Names[1]), frag) /\ FirstPublished(ctr.Ports) # 0
         THEN <<FirstPublished(ctr.Ports), Nil>>
         ELSE ScanContainers(Tail(containers), frag)

\* mutation: the scan gives up at the first container whose name matches
RECURSIVE ScanContainers_FirstMatchOnly(_, _)
ScanContainers_FirstMatchOnly(containers, frag) ==
    IF containers = <<>> THEN <<0, NotReady>>
    ELSE LET ctr == Head(containers) IN
         IF Contains(DropFirst(ctr.Names[1]), frag)
         THEN IF FirstPublished(ctr.Ports) # 0
              THEN <<FirstPublished(ctr.Ports), Nil>>
              ELSE <<0, NotReady>>
         ELSE ScanContainers_FirstMatchOnly(Tail(containers), frag)

GetPort_FirstMatchOnly(frag, answer) ==
    IF answer.err # Nil THEN <<0, answer.err>>
    ELSE ScanContainers_FirstMatchOnly(answer.containers, frag)

\* GetPort(name) when ListContainers returns answer: the pair (publicPort, err)
GetPort(frag, answer) ==
    IF answer.err # Nil THEN <<0, answer.err>>
    ELSE ScanContainers(answer.containers, frag)

----------------------------------------------------------------------------
(* GetPodPort *)

MaxAttempts == 70

\* mutation: := in the callback declares a new publicPort, the outer one is not assigned
Callback_Shadowed(att, answer) ==
    [ publicPort |-> publicPort,
      err |-> GetPort(name, answer)[2],
      again |-> att < MaxAttempts ]

\* mutation: the attempt test is off by one
Callback_OneMore(att, answer) ==
    [ publicPort |-> GetPort(name, answer)[1],
      err |-> GetPort(name, answer)[2],
      again |-> att <= MaxAttempts ]

\* the function handed to try.Do: what it assigns and the (bool, error) it returns
Callback(att, answer) ==
    [ publicPort |-> GetPort(name, answer)[1],
      err |-> GetPort(name, answer)[2],
      again |-> att < MaxAttempts ]

\* try.Do: the number of the first attempt
FirstAttempt == 1

\* try.Do: another attempt follows when the callback asks for one and returned an error
TryAgain(again, e) == again /\ e # Nil

\* one iteration of try.Do's loop: query, callback, decision to go on
TryAttempt(answer) ==
    /\ pc = "polling"
    /\ LET ran == Callback(attempt, answer) IN
         /\ publicPort' = ran.publicPort
         /\ err' = ran.err
         /\ failures' = IF ran.err # Nil THEN failures + 1 ELSE failures
         /\ IF TryAgain(ran.again, ran.err)
            THEN attempt' = attempt + 1 /\ pc' = "polling"
            ELSE attempt' = attempt /\ pc' = "tried"
    /\ queries' = queries + 1
    /\ listing' = answer
    /\ UNCHANGED <<name, result>>
    /\ UNCHANGED aggVars

\* lines 147-151: what GetPodPort returns once try.Do has returned
GetPodPortReturn ==
    /\ pc = "tried"
    /\ result' = <<publicPort, err>>
    /\ pc' = IF err # Nil THEN "exhausted" ELSE "found"
    /\ UNCHANGED <<name, attempt, publicPort, err, queries, failures, listing>>
    /\ UNCHANGED aggVars

InitWatch ==
    /\ legacy = EmptyMap
    /\ local = EmptyMap
    /\ pos = 0
    /\ container = NoContainer
    /\ contrib = EmptyMap
    /\ output = <<>>
    /\ name \in Fragments
    /\ attempt = FirstAttempt
    /\ publicPort = 0
    /\ err = Nil
    /\ pc = "polling"
    /\ queries = 0
    /\ failures = 0
    /\ listing = NoAnswer
    /\ result = <<0, Nil>>

NextWatch ==
    \/ \E answer \in Answers : TryAttempt(answer)
    \/ GetPodPortReturn

SpecWatch == InitWatch /\ [][NextWatch]_vars

----------------------------------------------------------------------------
(* Vocabulary of the inventory properties, stated on the segments of a     *)
(* name and on positions in a list rather than by the code's loops         *)

Segments(raw) == Split(DropFirst(raw))

IsLegacyTagged(segs) == Len(segs) >= 2 /\ segs[1] = sLegacy

IsRoleSuffixed(segs) == Len(segs) >= 2 /\ segs[Len(segs)] \in {sWeb, sDb}

\* the name carries the legacy prefix or a -db / -web suffix
Routed(raw) ==
    LET segs == Segments(raw) IN IsLegacyTagged(segs) \/ IsRoleSuffixed(segs)

\* the name is one the classifier of the specification recognizes
Recognized(raw) ==
    LET segs == Segments(raw) IN
    \/ IsLegacyTagged(segs) /\ Len(segs) = 4
    \/ ~IsLegacyTagged(segs) /\ IsRoleSuffixed(segs)

\* position of the first name of ctr satisfying P, 0 when there is none
FirstWhere(ctr, P(_)) ==
    LET hits == { i \in 1..Len(ctr.Names) : P(ctr.Names[i]) } IN
    IF hits = {} THEN 0 ELSE CHOOSE i \in hits : \A j \in hits : i <= j

\* what decides the fate of ctr: the position and segments of its first routed
\* name, whether that name is legacy, whether ctr is merged into a record, and
\* the key and role it is merged under
Decision(ctr) ==
    LET i == FirstWhere(ctr, Routed)
        segs == IF i = 0 THEN <<>> ELSE Segments(ctr.Names[i])
        four == Len(segs) = 4
    IN  [ index |-> i,
          segments |-> segs,
          isLegacy |-> IsLegacyTagged(segs),
          merged |-> four,
          key |-> IF four THEN segs[2] \o Dash \o segs[3] ELSE <<>>,
          role |-> IF four THEN segs[4] ELSE <<>> ]

\* the map a decided container goes to
MapOf(d, leg, loc) == IF d.isLegacy THEN leg ELSE loc

PublicPorts(ports) == [i \in 1..Len(ports) |-> ports[i].PublicPort]

IsLastNonzero(ports, p) ==
    IF \A i \in 1..Len(ports) : ports[i].PublicPort = 0 THEN p = 0
    ELSE \E i \in 1..Len(ports) :
            /\ ports[i].PublicPort = p
            /\ p # 0
            /\ \A j \in (i + 1)..Len(ports) : ports[j].PublicPort = 0

IsFirstNonzero(ports, p) ==
    IF \A i \in 1..Len(ports) : ports[i].PublicPort = 0 THEN p = 0
    ELSE \E i \in 1..Len(ports) :
            /\ ports[i].PublicPort = p
            /\ p # 0
            /\ \A j \in 1..(i - 1) : ports[j].PublicPort = 0

RolePortIs(rec, role, ports, Sel(_, _)) ==
    /\ role = sWeb => Sel(ports, rec.WebPublicPort)
    /\ role = sDb => Sel(ports, rec.DbPublicPort)

Stepped == pos' = pos + 1

\* one map before and after a step: nothing removed, nothing but key k touched
OnlyKeyTouched(before, after, k) ==
    /\ DOMAIN before \subseteq DOMAIN after
    /\ DOMAIN after \subseteq (DOMAIN before) \cup {k}
    /\ \A x \in DOMAIN before : x # k => after[x] = before[x]

----------------------------------------------------------------------------
(* C1 *)

\* C1 as stated: after a container is merged, the port of its role is the
\* FIRST nonzero public port of its port list (8080 for [0, 8080, 9090]).
C1_FirstNonzeroPortWins ==
    LET d == Decision(container) IN
    (pos > 0 /\ d.merged)
        => RolePortIs(MapOf(d, legacy, local)[d.key], d.role, container.Ports, IsFirstNonzero)

\* C1 amended: after a container is merged, the port of its role is the LAST
\* nonzero public port of its port list (9090 for [0, 8080, 9090]), and 0 when
\* the list has no nonzero public port.
C1_LastNonzeroPortWins ==
    LET d == Decision(container) IN
    (pos > 0 /\ d.merged)
        => RolePortIs(MapOf(d, legacy, local)[d.key], d.role, container.Ports, IsLastNonzero)

C1_Witness ==
    LET d == Decision(container) IN
    /\ pos > 0
    /\ d.merged
    /\ d.role = sWeb
    /\ PublicPorts(container.Ports) = <<0, 8080, 9090>>
    /\ MapOf(d, legacy, local)[d.key].WebPublicPort = 9090

----------------------------------------------------------------------------
(* C2 *)

StatusMatchesContributors(l, target) ==
    \A k \in DOMAIN l :
        /\ <<target, k>> \in DOMAIN contrib
        /\ l[k].Status = "running" <=> contrib[<<target, k>>] = {"running"}

\* C2: a record's status is "running" exactly when every container merged into
\* it had state "running".
C2_RunningIffAllRunning ==
    /\ StatusMatchesContributors(legacy, "legacy")
    /\ StatusMatchesContributors(local, "local")

\* an exited db container, then a running web container of the same application
C2_Witness ==
    LET d == Decision(container) IN
    /\ pos = 2
    /\ d.merged
    /\ d.isLegacy
    /\ d.role = sWeb
    /\ container.State = "running"
    /\ contrib[<<"legacy", d.key>>] = {"running", "exited"}
    /\ legacy[d.key].Status = "exited"
    /\ legacy[d.key].DbPublicPort # 0

----------------------------------------------------------------------------
(* C5 *)

StandardDecided(d) == d.index # 0 /\ ~d.isLegacy

StrippedName(d) == Join(SubSeq(d.segments, 1, Len(d.segments) - 1))

\* C5 as stated: a name without the legacy prefix that ends in -db or -web is
\* merged under the key "name with the suffix stripped", whatever its number
\* of segments, and sets the port of its role.
C5_StandardKeyIsStrippedName ==
    LET d == Decision(container) IN
    (pos > 0 /\ StandardDecided(d))
        => /\ StrippedName(d) \in DOMAIN local
           /\ RolePortIs(local[StrippedName(d)], d.segments[Len(d.segments)],
                         container.Ports, IsLastNonzero)

\* C5 amended: such a name is merged only when it has exactly 4 segments, under
\* the key segment[1]-segment[2] of the local map, with name segment[1],
\* environment segment[2] and the port of role segment[3] set; with any other
\* number of segments both maps are left as they were.
C5_StandardNeedsFourSegments ==
    [][ LET d == Decision(container') IN
        (Stepped /\ StandardDecided(d)) =>
            IF Len(d.segments) = 4
            THEN /\ legacy' = legacy
                 /\ d.key \in DOMAIN local'
                 /\ local'[d.key].Name = d.segments[2]
                 /\ local'[d.key].Environment = d.segments[3]
                 /\ RolePortIs(local'[d.key], d.role, container'.Ports, IsLastNonzero)
            ELSE legacy' = legacy /\ local' = local ]_vars

C5_Witness ==
    LET d == Decision(container) IN
    /\ pos = 2
    /\ StandardDecided(d)
    /\ d.merged
    /\ d.role = sDb
    /\ d.key \in DOMAIN local
    /\ local[d.key].DbPublicPort = 3306
    /\ local[d.key].WebPublicPort = 9090

----------------------------------------------------------------------------
(* C6 *)

KeyedByNameAndEnvironment(l) ==
    /\ \A k \in DOMAIN l : k = l[k].Name \o Dash \o l[k].Environment
    /\ \A j, k \in DOMAIN l :
          (l[j].Name = l[k].Name /\ l[j].Environment = l[k].Environment) => j = k

\* C6: every record is stored under the key name-environment, and no two
\* records of a map carry the same name and environment.
C6_KeyIsNameDashEnvironment ==
    /\ KeyedByNameAndEnvironment(legacy)
    /\ KeyedByNameAndEnvironment(local)

\* a legacy record that a second container has updated
C6_Witness ==
    LET d == Decision(container) IN
    /\ pos = 2
    /\ d.merged
    /\ d.isLegacy
    /\ Cardinality(DOMAIN legacy) = 1
    /\ legacy[d.key].WebPublicPort # 0
    /\ legacy[d.key].DbPublicPort # 0
    /\ legacy[d.key].Status = "restarting"

----------------------------------------------------------------------------
(* C7 *)

\* both maps after name number i of ctr alone has been processed
Through(ctr, i) ==
    IF i = 0 THEN <<legacy, local>>
    ELSE IF IsLegacyTagged(Segments(ctr.Names[i]))
    THEN <<ProcessContainer(legacy, DropFirst(ctr.Names[i]), ctr), local>>
    ELSE <<legacy, ProcessContainer(local, DropFirst(ctr.Names[i]), ctr)>>

\* C7 as stated: a container contributes through its first RECOGNIZED name; a
\* legacy-tagged name without 4 segments is unrecognized and passed over.
C7_FirstRecognizedNameWins ==
    [][ Stepped => <<legacy', local'>> = Through(container', FirstWhere(container', Recognized)) ]_vars

\* C7 amended: the scan stops at the first name that carries the legacy prefix
\* or a -db / -web suffix, whether or not it has 4 segments; names before it
\* are passed over, names after it are ignored, and at most one record of one
\* map is written.
C7_FirstRoutedNameWins ==
    [][ LET d == Decision(container') IN
        Stepped =>
          /\ <<legacy', local'>> = Through(container', d.index)
          /\ \/ legacy' = legacy /\ local' = local
             \/ /\ d.merged
                /\ IF d.isLegacy
                   THEN local' = local /\ OnlyKeyTouched(legacy, legacy', d.key)
                   ELSE legacy' = legacy /\ OnlyKeyTouched(local, local', d.key) ]_vars

\* a 3-segment legacy name ends the scan before a well-formed legacy name
C7_Witness ==
    /\ pos > 0
    /\ Len(container.Names) = 2
    /\ Decision(container).index = 1
    /\ ~Recognized(container.Names[1])
    /\ Recognized(container.Names[2])
    /\ legacy = EmptyMap

----------------------------------------------------------------------------
(* C8 *)

\* C8: a container whose deciding name does not split into exactly 4 segments,
\* or that has no deciding name at all, leaves both maps as they were.
C8_NotFourSegmentsNoRecord ==
    [][ (Stepped /\ ~Decision(container').merged) => (legacy' = legacy /\ local' = local) ]_vars

\* a 5-segment legacy name processed while the map already holds a record
C8_Witness ==
    LET d == Decision(container) IN
    /\ pos = 2
    /\ d.index = 1
    /\ d.isLegacy
    /\ Len(d.segments) = 5
    /\ Cardinality(DOMAIN legacy) = 1
    /\ local = EmptyMap

----------------------------------------------------------------------------
(* C10 *)

OtherFieldsKept(before, after, k, role) ==
    k \in DOMAIN before =>
        /\ after[k].Name = before[k].Name
        /\ after[k].Environment = before[k].Environment
        /\ role # sWeb => after[k].WebPublicPort = before[k].WebPublicPort
        /\ role # sDb => after[k].DbPublicPort = before[k].DbPublicPort

\* C10: merging a container with key k and role r removes no record, leaves the
\* other map and every record under another key as they were, and within
\* record k leaves the name, the environment and the other role's port as
\* they were.
C10_OnlyOwnRecordChanges ==
    [][ LET d == Decision(container') IN
        (Stepped /\ d.merged) =>
          IF d.isLegacy
          THEN /\ local' = local
               /\ OnlyKeyTouched(legacy, legacy', d.key)
               /\ OtherFieldsKept(legacy, legacy', d.key, d.role)
          ELSE /\ legacy' = legacy
               /\ OnlyKeyTouched(local, local', d.key)
               /\ OtherFieldsKept(local, local', d.key, d.role) ]_vars

\* a web container merged into a record that already held a db port
C10_Witness ==
    LET d == Decision(container) IN
    /\ pos = 2
    /\ d.merged
    /\ d.isLegacy
    /\ d.role = sWeb
    /\ legacy[d.key].WebPublicPort = 9090
    /\ legacy[d.key].DbPublicPort = 3306

----------------------------------------------------------------------------
(* Vocabulary of the port watcher properties, stated on positions in the   *)
(* latest ListContainers answer                                            *)

Listed == listing.containers

Matches(i) == Contains(DropFirst(Listed[i].Names[1]), name)

Published(i) == \E j \in 1..Len(Listed[i].Ports) : Listed[i].Ports[j].PublicPort # 0

\* p is the first nonzero public port of container i of the answer
FirstPortOf(i, p) == IsFirstNonzero(Listed[i].Ports, p) /\ p # 0

\* the error a failed latest attempt must carry
ErrorOfLatestAttempt == IF listing.err # Nil THEN listing.err ELSE NotReady

\* p is the port the latest query found: that of the first container that
\* matches the fragment and publishes a port
FoundByLatestQuery(p) ==
    /\ listing.err = Nil
    /\ \E i \in 1..Len(Listed) :
          /\ Matches(i) /\ Published(i) /\ FirstPortOf(i, p)
          /\ \A h \in 1..(i - 1) : ~(Matches(h) /\ Published(h))

----------------------------------------------------------------------------
(* C3 *)

\* C3: when the first k-1 queries fail and query k succeeds, k in 1..70, the
\* call returns the port query k found and no error, after exactly k queries;
\* once the callback has succeeded no further query is issued.
C3_StopsAtFirstSuccess ==
    /\ [](pc = "found" =>
            /\ result[2] = Nil
            /\ FoundByLatestQuery(result[1])
            /\ failures = queries - 1
            /\ queries = attempt
            /\ queries \in 1..MaxAttempts)
    /\ [][(queries > 0 /\ err = Nil) => queries' = queries]_vars

\* success on the 70th query after 69 failures
C3_Witness ==
    /\ pc = "found"
    /\ queries = MaxAttempts
    /\ failures = MaxAttempts - 1
    /\ result = <<8080, Nil>>

----------------------------------------------------------------------------
(* C4 *)

\* C4: when every query fails the call ends after exactly 70 queries and
\* returns port 0 with the error of the 70th attempt; no 71st query is issued.
C4_ExhaustedAfterSeventy ==
    /\ queries <= MaxAttempts
    /\ pc = "exhausted" =>
          /\ queries = MaxAttempts
          /\ failures = MaxAttempts
          /\ result = <<0, ErrorOfLatestAttempt>>

\* exhaustion whose last attempt failed in ListContainers itself
C4_Witness ==
    /\ pc = "exhausted"
    /\ queries = MaxAttempts
    /\ listing.err \in ListErrors
    /\ result[2] = listing.err

----------------------------------------------------------------------------
(* C9 *)

Attempted == queries > 0 /\ listing.err = Nil

\* C9 as stated: the attempt looks only at the FIRST container whose name
\* contains the fragment; without a published port there, it fails with
\* "not ready" even when a later matching container publishes one.
C9_OnlyFirstMatchingContainer ==
    Attempted =>
        IF \E i \in 1..Len(Listed) : Matches(i)
        THEN LET first == CHOOSE i \in 1..Len(Listed) :
                            Matches(i) /\ \A h \in 1..(i - 1) : ~Matches(h)
             IN  IF Published(first)
                 THEN err = Nil /\ FirstPortOf(first, publicPort)
                 ELSE err = NotReady /\ publicPort = 0
        ELSE err = NotReady /\ publicPort = 0

\* C9 amended: the attempt returns the first nonzero published port of the
\* first container that both contains the fragment in its name and publishes
\* a port; it fails with "not ready" exactly when no container does both.
C9_FirstMatchingPublishedContainer ==
    Attempted =>
        IF \E i \in 1..Len(Listed) : Matches(i) /\ Published(i)
        THEN err = Nil /\ FoundByLatestQuery(publicPort)
        ELSE err = NotReady /\ publicPort = 0

\* the first matching container publishes nothing, the second one does
C9_Witness ==
    /\ Attempted
    /\ Len(Listed) = 2
    /\ Matches(1) /\ ~Published(1)
    /\ Matches(2) /\ Published(2)
    /\ err = Nil
    /\ publicPort = 8080

====
